---- MODULE Spec2Model ----
(***************************************************************************)
(* DreamWeaver: the App orchestrator (src/App.tsx), the DreamRecorder and  *)
(* DreamAnalysis views (src/components/DreamAnalysis.tsx), the DreamChat   *)
(* view (src/components/DreamChat.tsx) and the speech playback engine with *)
(* its PCM decoder (src/services/geminiService.ts) as one state machine.   *)
(*                                                                         *)
(* The program runs on a single-threaded event loop: every action below is *)
(* one task of that loop (a click handler, or the continuation of an       *)
(* awaited promise together with the microtasks it chains), run to         *)
(* completion.  Tasks of different sources (user input, the microphone     *)
(* grant, MediaRecorder events, network replies, audio 'ended' events)     *)
(* interleave in any order.                                                *)
(***************************************************************************)
EXTENDS Integers, Sequences, FiniteSets, TLC

\* ---------------------------------------------------------------- bounds
MaxCycles == 2      \* handleProcessDream invocations
MaxSessions == 2    \* startRecording invocations
MaxPlaybacks == 2   \* play requests (handlePlayInterpretation, start branch)
MaxTime == 1        \* cap of the recording-duration counter
MaxSends == 2       \* handleSend invocations that pass its guard
MaxFragments == 2   \* increments one reply stream delivers
MaxBytes == 4       \* length of a PCM byte buffer

Cycles == 1..MaxCycles
Sessions == 1..MaxSessions
Playbacks == 1..MaxPlaybacks
Sends == 1..MaxSends
\* DreamRecorder instances: the first mount, and one remount per cycle
RecViews == 1..(MaxCycles + 1)
\* DreamAnalysis instances: one per completed cycle
AnaViews == 1..MaxCycles

\* ------------------------------------------------------- nullable values
\* A nullable JavaScript value: <<>> is null, <<x>> is the value x.
None == <<>>
Some(x) == <<x>>
IsSome(o) == o # <<>>
Val(o) == o[1]

\* ----------------------------------------------------- program constants
ImageSizes == {"1K", "2K", "4K"}
DefaultError == "DEFAULT_PROCESSING_ERROR"
\* err.message of a failed analyzeDreamAudio: the two messages it throws
\* itself, or a collaborator error ("" stands for one without a message)
AnalyzeErrors == {"", "Failed to generate analysis JSON.", "Invalid response format from AI."}
ImageErrors == {"", "No image generated."}
\* results of Math.min(100, avg * 2.5) the visualisation can show
Loudness == {0, 100}

\* ------------------------------------------------------------- variables
VARIABLES
  \* App (src/App.tsx)
  isProcessing, error, dreamData, loadingStep,
  cycle,        \* per handleProcessDream invocation: its locals and awaits
  nCycles,
  recInst,      \* the DreamRecorder instance of the latest mount
  anaInst,      \* the DreamAnalysis instance of the latest mount (0: none yet)
  \* DreamRecorder (src/components/DreamAnalysis.tsx:151-164), per instance
  recorder,
  \* per startRecording invocation: its await and the platform objects it made
  capture,
  nSessions,
  \* DreamAnalysis (src/components/DreamAnalysis.tsx:13-16), per instance
  analysis,
  \* per play request: its awaits and the platform objects playDreamSpeech made
  playback,
  nPlaybacks,
  \* DreamChat (src/components/DreamChat.tsx:13-16), per DreamAnalysis instance
  chat,
  \* per handleSend invocation: its locals, its await and its stream
  send,
  nSends,
  \* decodePCM (src/services/geminiService.ts:160-178): its argument and
  \* what it settled with
  pcm

vars == <<isProcessing, error, dreamData, loadingStep, cycle, nCycles, recInst,
          anaInst, recorder, capture, nSessions, analysis, playback, nPlaybacks,
          chat, send, nSends, pcm>>
appVars == <<isProcessing, error, dreamData, loadingStep, cycle, nCycles, recInst, anaInst>>
recVars == <<recorder, capture, nSessions>>
anaVars == <<analysis, playback, nPlaybacks>>
chatVars == <<chat, send, nSends>>

\* ----------------------------------------------------------- initial state
\* pc: none | analyze | image | done | failedAnalyze | failedImage.
\* audioBlob, imageSize: the arguments; analysis: the local of that name;
\* imageCall: the generateDreamImage call in flight; imageIssued: whether
\* the invocation ever issued one.  The arguments and the call are dropped
\* when the invocation returns.
InitCycle ==
  [pc |-> "none", audioBlob |-> <<>>, imageSize |-> "1K",
   analysis |-> None, imageCall |-> None, imageIssued |-> FALSE]

Returned(cy, pc) ==
  [cy EXCEPT !.pc = pc, !.audioBlob = <<>>, !.imageSize = "1K",
             !.imageCall = None]

InitRecorder ==
  [isRecording |-> FALSE, audioBlob |-> None, recordingTime |-> 0,
   imageSize |-> "1K", volume |-> 0,
   mediaRecorderRef |-> 0, chunksRef |-> <<>>, timerRef |-> 0,
   audioContextRef |-> 0, analyserRef |-> 0, sourceRef |-> 0,
   animationFrameRef |-> 0]

\* pc: none | awaitMic | denied | granted.  stream: none | live | stopped.
\* audioContext: none | running | closed.  mediaRecorder: none | recording |
\* stopping (stop() called, its events queued) | stopped.
\* timer: none | active | cleared.  frame: none | pending | cancelled.
InitCapture ==
  [view |-> 0, pc |-> "none", stream |-> "none", audioContext |-> "none",
   mediaRecorder |-> "none", timer |-> "none", frame |-> "none",
   emitted |-> <<>>, finalBlob |-> None]

InitAnalysis ==
  [isPlayingAudio |-> FALSE, isLoadingAudio |-> FALSE, stopAudioRef |-> None]

\* pc: none | speech (awaiting generateDreamSpeech) | speechFailed |
\*     ctorThrew | failed (caught inside playDreamSpeech) | started.
\* ctx: none | running | closed.  source: none | playing | finished | stopped.
InitPlayback ==
  [view |-> 0, pc |-> "none", ctx |-> "none", source |-> "none",
   endedQueued |-> FALSE, onEndedCalls |-> 0, releases |-> 0,
   returned |-> "none", rejected |-> FALSE]

\* A text is the sequence of its pieces.  The greeting the chat is seeded
\* with and the apology of the failure path are fixed texts.
Greeting == <<"greeting">>
Fallback == <<"fallback">>
Turn(role, text) == [role |-> role, text |-> text]

InitChat ==
  [messages |-> <<>>, input |-> <<>>, isLoading |-> FALSE,
   chatSessionRef |-> None]

\* pc: none | open (awaiting sendMessageStream) | stream (in the for-await
\*     loop) | done | failed | unmounted (its DreamChat is gone: whatever
\*     is left of the invocation sets state of an unmounted component, which
\*     does nothing, and its locals are reachable from nothing else).
\* userMsg, fullResponse: the locals; before, fragments: the transcript when
\* the send began and the increments delivered so far, in arrival order.
InitSend ==
  [view |-> 0, pc |-> "none", userMsg |-> <<>>, fullResponse |-> <<>>,
   before |-> <<>>, fragments |-> <<>>]

\* decodePCM not called: no data, no result
InitPCM == [data |-> <<>>, pc |-> "idle", buffer |-> None]

Init ==
  /\ pcm = InitPCM
  /\ chat = [a \in AnaViews |-> InitChat]
  /\ send = [s \in Sends |-> InitSend]
  /\ nSends = 0
  /\ isProcessing = FALSE
  /\ error = None
  /\ dreamData = None
  /\ loadingStep = ""
  /\ cycle = [c \in Cycles |-> InitCycle]
  /\ nCycles = 0
  /\ recInst = 1
  /\ anaInst = 0
  /\ recorder = [v \in RecViews |-> InitRecorder]
  /\ capture = [s \in Sessions |-> InitCapture]
  /\ nSessions = 0
  /\ analysis = [a \in AnaViews |-> InitAnalysis]
  /\ playback = [p \in Playbacks |-> InitPlayback]
  /\ nPlaybacks = 0

\* ------------------------------------------------------ what is rendered
\* App's render: isProcessing ? spinner : !dreamData ? DreamRecorder : DreamAnalysis
RecorderShown == ~isProcessing /\ dreamData = None
AnalysisShown == ~isProcessing /\ dreamData # None
RecMounted(v) == RecorderShown /\ recInst = v
AnaMounted(a) == AnalysisShown /\ anaInst = a

\* ================================================================ capture
\* Array.prototype.push / new Blob(parts): a recording is the byte sequence
\* its parts concatenate to.
RECURSIVE BlobOf(_)
BlobOf(chunks) ==
  IF chunks = <<>> THEN <<>> ELSE Head(chunks) \o BlobOf(Tail(chunks))

\* What the recorder of session s can have gathered when it is stopped:
\* nothing (a Blob of size 0), or bytes of that session.
Gathered(s) == {<<>>, <<s>>}

\* clearInterval(id) behind `if (timerRef.current)`
ClearInterval(cap, id) ==
  IF id # 0 /\ cap[id].timer = "active"
    THEN [cap EXCEPT ![id].timer = "cleared"] ELSE cap

\* cancelAnimationFrame(id) behind `if (animationFrameRef.current)`: only a
\* frame that is still requested is cancelled; a loop whose latest request
\* is not the one held in the ref goes on.
CancelAnimationFrame(cap, id) ==
  IF id # 0 /\ cap[id].frame = "pending"
    THEN [cap EXCEPT ![id].frame = "cancelled"] ELSE cap

\* audioContext.close() behind `if (audioContextRef.current)`
CloseRecorderContext(cap, id) ==
  IF id # 0 /\ cap[id].audioContext = "running"
    THEN [cap EXCEPT ![id].audioContext = "closed"] ELSE cap

\* stream.getTracks().forEach(track => track.stop())
StopTracks(cap, s) ==
  IF cap[s].stream = "live" THEN [cap EXCEPT ![s].stream = "stopped"] ELSE cap

\* React discards the useState values of an unmounted DreamRecorder (later
\* setState calls on it do nothing); its refs stay reachable from closures.
UnmountedRecorder(r) ==
  [r EXCEPT !.isRecording = FALSE, !.audioBlob = None, !.recordingTime = 0,
            !.imageSize = "1K", !.volume = 0]

\* DreamRecorder's unmount cleanup
RecorderCleanup(cap, v) ==
  CloseRecorderContext(
    CancelAnimationFrame(
      ClearInterval(cap, recorder[v].timerRef),
      recorder[v].animationFrameRef),
    recorder[v].audioContextRef)

\* visualize(), run for the loop that session s started, on the instance r it
\* belongs to (mounted: whether its setVolume still has an effect)
Visualize(r, s, lvl, mounted) ==
  IF r.analyserRef = 0 THEN r
  ELSE [r EXCEPT !.volume = IF mounted THEN lvl ELSE @,
                 !.animationFrameRef = s]

\* click on "start recording": startRecording up to its await
StartRecording(v) ==
  /\ RecMounted(v)
  /\ recorder[v].audioBlob = None /\ ~recorder[v].isRecording
  /\ nSessions < MaxSessions
  /\ nSessions' = nSessions + 1
  /\ capture' = [capture EXCEPT ![nSessions + 1] =
                   [@ EXCEPT !.view = v, !.pc = "awaitMic"]]
  /\ UNCHANGED <<recorder, appVars, anaVars, chatVars, pcm>>

\* getUserMedia resolves: the rest of startRecording's try block
MicGranted(s) ==
  /\ capture[s].pc = "awaitMic"
  /\ \E lvl \in Loudness :
       LET v == capture[s].view
           m == RecMounted(v)
           refs == [recorder[v] EXCEPT !.audioContextRef = s,
                                       !.analyserRef = s,
                                       !.sourceRef = s]
           vis == Visualize(refs, s, lvl, m)
       IN /\ recorder' = [recorder EXCEPT ![v] =
                 [vis EXCEPT !.mediaRecorderRef = s,
                             !.chunksRef = <<>>,
                             !.isRecording = IF m THEN TRUE ELSE @,
                             !.recordingTime = IF m THEN 0 ELSE @,
                             !.timerRef = s]]
          /\ capture' = [capture EXCEPT ![s] =
                 [@ EXCEPT !.pc = "granted", !.stream = "live",
                           !.audioContext = "running", !.frame = "pending",
                           !.mediaRecorder = "recording", !.timer = "active"]]
  /\ UNCHANGED <<nSessions, appVars, anaVars, chatVars, pcm>>

\* getUserMedia rejects: the catch block (an alert, no state)
MicDenied(s) ==
  /\ capture[s].pc = "awaitMic"
  /\ capture' = [capture EXCEPT ![s].pc = "denied"]
  /\ UNCHANGED <<recorder, nSessions, appVars, anaVars, chatVars, pcm>>

\* click on "stop recording"
StopRecording(v) ==
  /\ RecMounted(v)
  /\ recorder[v].audioBlob = None /\ recorder[v].isRecording
  /\ LET r == recorder[v].mediaRecorderRef
         stopped == IF capture[r].mediaRecorder = "recording"
                      THEN [capture EXCEPT ![r].mediaRecorder = "stopping"]
                      ELSE capture
     IN IF r # 0
          THEN /\ capture' = ClearInterval(stopped, recorder[v].timerRef)
               /\ recorder' = [recorder EXCEPT ![v].isRecording = FALSE,
                                               ![v].timerRef = 0]
          ELSE UNCHANGED <<capture, recorder>>
  /\ UNCHANGED <<nSessions, appVars, anaVars, chatVars, pcm>>

\* mediaRecorder.ondataavailable followed by mediaRecorder.onstop, the two
\* events of the task that MediaRecorder.stop() queues
RecorderStops(s, data) ==
  /\ capture[s].mediaRecorder = "stopping"
  /\ LET v == capture[s].view
         m == RecMounted(v)
         chunks == IF Len(data) > 0
                     THEN Append(recorder[v].chunksRef, data)
                     ELSE recorder[v].chunksRef
         blob == BlobOf(chunks)
     IN /\ recorder' = [recorder EXCEPT ![v] =
               [@ EXCEPT !.chunksRef = chunks,
                         !.audioBlob = IF m THEN Some(blob) ELSE @,
                         !.volume = IF m THEN 0 ELSE @]]
        /\ capture' = CancelAnimationFrame(
               StopTracks(
                 [capture EXCEPT ![s] =
                    [@ EXCEPT !.mediaRecorder = "stopped",
                              !.emitted = data,
                              !.finalBlob = Some(blob)]],
                 s),
               recorder[v].animationFrameRef)
  /\ UNCHANGED <<nSessions, appVars, anaVars, chatVars, pcm>>

RecorderStopTask(s) == \E data \in Gathered(s) : RecorderStops(s, data)

\* the setInterval callback: setRecordingTime(prev => prev + 1)
TimerTick(s) ==
  /\ capture[s].timer = "active"
  /\ RecMounted(capture[s].view)
  /\ recorder[capture[s].view].recordingTime < MaxTime
  /\ recorder' = [recorder EXCEPT ![capture[s].view].recordingTime = @ + 1]
  /\ UNCHANGED <<capture, nSessions, appVars, anaVars, chatVars, pcm>>

\* a requested animation frame fires: visualize() again
FrameTick(s) ==
  /\ capture[s].frame = "pending"
  /\ \E lvl \in Loudness :
       LET v == capture[s].view
       IN /\ recorder' = [recorder EXCEPT ![v] =
                 Visualize(@, s, lvl, RecMounted(v))]
          /\ capture' = [capture EXCEPT ![s].frame =
                 IF recorder[v].analyserRef = 0 THEN "none" ELSE "pending"]
  /\ UNCHANGED <<nSessions, appVars, anaVars, chatVars, pcm>>

\* click on "re-record"
HandleReRecord(v) ==
  /\ RecMounted(v)
  /\ recorder[v].audioBlob # None
  /\ recorder' = [recorder EXCEPT ![v].audioBlob = None,
                                  ![v].recordingTime = 0]
  /\ UNCHANGED <<capture, nSessions, appVars, anaVars, chatVars, pcm>>

\* the image-size select
SetImageSize(v) ==
  /\ RecMounted(v)
  /\ recorder[v].audioBlob # None
  /\ \E size \in ImageSizes :
       recorder' = [recorder EXCEPT ![v].imageSize = size]
  /\ UNCHANGED <<capture, nSessions, appVars, anaVars, chatVars, pcm>>

\* =========================================================== orchestrator
\* What analyzeDreamAudio resolves to in cycle c, and what generateDreamImage
\* resolves to for a prompt and a size: the collaborator's answers, labelled
\* by the request they answer.
AnalysisResult(c) ==
  [transcript |-> <<"transcript", c>>,
   interpretation |-> <<"interpretation", c>>,
   imagePrompt |-> <<"imagePrompt", c>>]
ImageUrl(prompt, size) == <<"image", prompt, size>>

\* setError(err.message || "...")
ErrorText(msg) == IF msg = "" THEN DefaultError ELSE msg

\* click on "analyze dream": handleProcess, then handleProcessDream up to its
\* first await; the render that follows replaces the recorder by the spinner
HandleProcess(v) ==
  /\ RecMounted(v)
  /\ recorder[v].audioBlob # None
  /\ nCycles < MaxCycles
  /\ nCycles' = nCycles + 1
  /\ isProcessing' = TRUE
  /\ error' = None
  /\ loadingStep' = "analyze"
  /\ cycle' = [cycle EXCEPT ![nCycles + 1] =
                 [@ EXCEPT !.pc = "analyze",
                           !.audioBlob = Val(recorder[v].audioBlob),
                           !.imageSize = recorder[v].imageSize]]
  /\ capture' = RecorderCleanup(capture, v)
  /\ recorder' = [recorder EXCEPT ![v] = UnmountedRecorder(@)]
  /\ UNCHANGED <<dreamData, recInst, anaInst, nSessions, anaVars, chatVars, pcm>>

\* AnalyzeReturns with the record stored as soon as the analysis is there,
\* before the image
AnalyzeReturnsStoresEarly(c) ==
  /\ cycle[c].pc = "analyze"
  /\ LET result == AnalysisResult(c)
     IN /\ cycle' = [cycle EXCEPT ![c] =
             [@ EXCEPT !.pc = "image",
                       !.analysis = Some(result),
                       !.imageCall = Some([prompt |-> result.imagePrompt,
                                           size |-> cycle[c].imageSize]),
                       !.imageIssued = TRUE]]
        /\ dreamData' = Some([transcript |-> result.transcript,
                              interpretation |-> result.interpretation,
                              imageUrl |-> <<"image">>,
                              imagePrompt |-> result.imagePrompt,
                              timestamp |-> c])
  /\ loadingStep' = "image"
  /\ UNCHANGED <<isProcessing, error, nCycles, recInst, anaInst,
                 recVars, anaVars, chatVars, pcm>>

\* analyzeDreamAudio resolves: step 2 is issued with the prompt it returned
AnalyzeReturns(c) ==
  /\ cycle[c].pc = "analyze"
  /\ LET result == AnalysisResult(c)
     IN cycle' = [cycle EXCEPT ![c] =
          [@ EXCEPT !.pc = "image",
                    !.analysis = Some(result),
                    !.imageCall = Some([prompt |-> result.imagePrompt,
                                        size |-> cycle[c].imageSize]),
                    !.imageIssued = TRUE]]
  /\ loadingStep' = "image"
  /\ UNCHANGED <<isProcessing, error, dreamData, nCycles, recInst, anaInst,
                 recVars, anaVars, chatVars, pcm>>

\* DreamChat's context prop, as DreamAnalysis builds it from the record
ChatContext(data) == <<"context", data.transcript, data.interpretation>>

\* DreamChat after its mount effect: a session for the context, and the
\* transcript seeded with the greeting
MountedChat(data) ==
  [InitChat EXCEPT !.messages = <<Turn("model", Greeting)>>,
                   !.chatSessionRef = Some(ChatContext(data))]

\* React discards the state of an unmounted DreamChat
UnmountedChat(ch) == InitChat

\* the handleSend invocations of the DreamChat of view a, once it is unmounted
UnmountedSends(sends, a) ==
  [s \in Sends |->
     IF sends[s].view = a
       THEN [InitSend EXCEPT !.view = a, !.pc = "unmounted"]
       ELSE sends[s]]

\* the catch and finally blocks, and the render that follows
CycleFails(c, stage, msg) ==
  /\ error' = Some(ErrorText(msg))
  /\ isProcessing' = FALSE
  /\ loadingStep' = ""
  /\ cycle' = [cycle EXCEPT ![c] = Returned(@, stage)]
  /\ recInst' = IF dreamData = None THEN recInst + 1 ELSE recInst
  /\ anaInst' = IF dreamData # None THEN anaInst + 1 ELSE anaInst
  /\ chat' = IF dreamData # None
               THEN [chat EXCEPT ![anaInst + 1] = MountedChat(Val(dreamData))]
               ELSE chat
  /\ UNCHANGED <<dreamData, nCycles, recVars, anaVars, send, nSends, pcm>>

\* AnalyzeFails with step 2 outside the try block's sequence: the image is
\* requested although the analysis failed
AnalyzeFailsStillGenerates(c) ==
  /\ cycle[c].pc = "analyze"
  /\ cycle' = [cycle EXCEPT ![c] =
        [@ EXCEPT !.pc = "image",
                  !.imageCall = Some([prompt |-> <<"imagePrompt", 0>>,
                                      size |-> cycle[c].imageSize]),
                  !.imageIssued = TRUE]]
  /\ loadingStep' = "image"
  /\ UNCHANGED <<isProcessing, error, dreamData, nCycles, recInst, anaInst,
                 recVars, anaVars, chatVars, pcm>>

\* analyzeDreamAudio rejects
AnalyzeFails(c) ==
  /\ cycle[c].pc = "analyze"
  /\ \E msg \in AnalyzeErrors : CycleFails(c, "failedAnalyze", msg)

\* generateDreamImage rejects
ImageFails(c) ==
  /\ cycle[c].pc = "image"
  /\ \E msg \in ImageErrors : CycleFails(c, "failedImage", msg)

\* the record handleProcessDream assembles (timestamp: the cycle's ordinal
\* stands for new Date())
AssembleDreamData(c, imageUrl) ==
  [transcript |-> Val(cycle[c].analysis).transcript,
   interpretation |-> Val(cycle[c].analysis).interpretation,
   imageUrl |-> imageUrl,
   imagePrompt |-> Val(cycle[c].analysis).imagePrompt,
   timestamp |-> c]

\* generateDreamImage resolves: setDreamData, the finally block, and the
\* render that mounts a DreamAnalysis
ImageReturns(c) ==
  /\ cycle[c].pc = "image"
  /\ dreamData' = Some(AssembleDreamData(c,
        ImageUrl(Val(cycle[c].imageCall).prompt, Val(cycle[c].imageCall).size)))
  /\ isProcessing' = FALSE
  /\ loadingStep' = ""
  /\ cycle' = [cycle EXCEPT ![c] = Returned(@, "done")]
  /\ anaInst' = anaInst + 1
  /\ chat' = [chat EXCEPT ![anaInst + 1] = MountedChat(Val(dreamData'))]
  /\ UNCHANGED <<error, nCycles, recInst, recVars, anaVars, send, nSends, pcm>>

\* =============================================================== playback
\* What generateDreamSpeech can hand to playDreamSpeech: PCM samples; a
\* payload of fewer than two bytes (a zero-length sample buffer, for which
\* createBuffer throws); or text atob cannot decode.
Payloads == {"pcm", "empty", "malformed"}

\* ctx.close(): closing a closed context releases nothing (its promise rejects)
CloseCtx(pb) ==
  IF pb.ctx = "running"
    THEN [pb EXCEPT !.ctx = "closed", !.releases = @ + 1] ELSE pb

\* StopFn without its ctx.close()
StopFnLeavesContextOpen(pb) ==
  IF pb.source = "playing"
    THEN [pb EXCEPT !.source = "stopped", !.endedQueued = TRUE]
    ELSE pb

\* the function playDreamSpeech returns on success: source.stop(); ctx.close()
\* (stop() of a source that plays ends it and makes it due an 'ended' event)
StopFn(pb) ==
  CloseCtx(IF pb.source = "playing"
             THEN [pb EXCEPT !.source = "stopped", !.endedQueued = TRUE]
             ELSE pb)

\* a call of the function held in stopAudioRef: the stop function of
\* playback fn.p, or the no-op of the failure path
CallStop(pbs, fn) ==
  IF fn.kind = "stop" THEN [pbs EXCEPT ![fn.p] = StopFn(@)] ELSE pbs

\* the onEnded callback handlePlayInterpretation passes, on the instance r
OnEndedView(r, mounted) ==
  [r EXCEPT !.isPlayingAudio = IF mounted THEN FALSE ELSE @,
            !.stopAudioRef = None]

\* React discards the useState values of an unmounted DreamAnalysis; its ref
\* stays reachable from the closures of a pending handlePlayInterpretation.
UnmountedAnalysis(r) ==
  [r EXCEPT !.isPlayingAudio = FALSE, !.isLoadingAudio = FALSE]

\* if (stopAudioRef.current) stopAudioRef.current()
CallStopAudioRef(pbs, a) ==
  IF analysis[a].stopAudioRef # None
    THEN CallStop(pbs, Val(analysis[a].stopAudioRef)) ELSE pbs

\* DreamAnalysis's unmount cleanup
AnalysisCleanup(pbs, a) == CallStopAudioRef(pbs, a)

\* click on the play / stop button (disabled while isLoadingAudio)
HandlePlayInterpretation(a) ==
  /\ AnaMounted(a)
  /\ ~analysis[a].isLoadingAudio
  /\ IF analysis[a].isPlayingAudio
       THEN /\ playback' = CallStopAudioRef(playback, a)
            /\ analysis' = [analysis EXCEPT ![a].stopAudioRef = None,
                                            ![a].isPlayingAudio = FALSE]
            /\ UNCHANGED nPlaybacks
       ELSE /\ nPlaybacks < MaxPlaybacks
            /\ nPlaybacks' = nPlaybacks + 1
            /\ analysis' = [analysis EXCEPT ![a].isLoadingAudio = TRUE]
            /\ playback' = [playback EXCEPT ![nPlaybacks + 1] =
                              [@ EXCEPT !.view = a, !.pc = "speech"]]
  /\ UNCHANGED <<appVars, recVars, chatVars, pcm>>

\* generateDreamSpeech rejects: the catch block (an alert) and finally
SpeechFails(p) ==
  /\ playback[p].pc = "speech"
  /\ playback' = [playback EXCEPT ![p].pc = "speechFailed"]
  /\ analysis' = [analysis EXCEPT ![playback[p].view].isLoadingAudio =
                    IF AnaMounted(playback[p].view) THEN FALSE ELSE @]
  /\ UNCHANGED <<nPlaybacks, appVars, recVars, chatVars, pcm>>

\* playDreamSpeech(base64Audio, onEnded) on a playback record: what it leaves
\* of the platform objects, how often it ran onEnded, and how it settled
\* (returned: stop | noop; rejected: the error reached the caller)
PlayDreamSpeech(pb, payload, device) ==
  IF ~device
    THEN [pb EXCEPT !.pc = "ctorThrew", !.rejected = TRUE]
  ELSE IF payload # "pcm"
    THEN CloseCtx([pb EXCEPT !.pc = "failed", !.ctx = "running",
                             !.onEndedCalls = @ + 1, !.returned = "noop"])
  ELSE [pb EXCEPT !.pc = "started", !.ctx = "running",
                  !.source = "playing", !.returned = "stop"]

\* generateDreamSpeech resolves: playDreamSpeech runs to its return (its one
\* await settles in a microtask), then the rest of handlePlayInterpretation
SpeechReturns(p) ==
  /\ playback[p].pc = "speech"
  /\ \E payload \in Payloads, device \in BOOLEAN :
       LET a == playback[p].view
           m == AnaMounted(a)
           pb == PlayDreamSpeech(playback[p], payload, device)
           ended == IF pb.onEndedCalls > 0
                      THEN OnEndedView(analysis[a], m) ELSE analysis[a]
       IN /\ playback' = [playback EXCEPT ![p] = pb]
          /\ analysis' = [analysis EXCEPT ![a] =
               IF pb.rejected
                 THEN [ended EXCEPT !.isLoadingAudio = IF m THEN FALSE ELSE @]
                 ELSE [ended EXCEPT
                         !.stopAudioRef = Some([kind |-> pb.returned, p |-> p]),
                         !.isPlayingAudio = IF m THEN TRUE ELSE @,
                         !.isLoadingAudio = IF m THEN FALSE ELSE @]]
  /\ UNCHANGED <<nPlaybacks, appVars, recVars, chatVars, pcm>>

\* the audio clock reaches the end of the buffer
AudioEnds(p) ==
  /\ playback[p].source = "playing"
  /\ playback' = [playback EXCEPT ![p].source = "finished",
                                  ![p].endedQueued = TRUE]
  /\ UNCHANGED <<analysis, nPlaybacks, appVars, recVars, chatVars, pcm>>

\* source.onended: onEnded(); ctx.close()
EndedEvent(p) ==
  /\ playback[p].endedQueued
  /\ playback' = [playback EXCEPT ![p] =
        CloseCtx([@ EXCEPT !.endedQueued = FALSE, !.onEndedCalls = @ + 1])]
  /\ analysis' = [analysis EXCEPT ![playback[p].view] =
        OnEndedView(@, AnaMounted(playback[p].view))]
  /\ UNCHANGED <<nPlaybacks, appVars, recVars, chatVars, pcm>>

\* A source stopped by stop() whose context was closed in the same task: the
\* context may stop rendering before the stop is processed, and then no
\* 'ended' event is ever dispatched.
EndedLost(p) ==
  /\ playback[p].endedQueued
  /\ playback[p].source = "stopped" /\ playback[p].ctx = "closed"
  /\ playback' = [playback EXCEPT ![p].endedQueued = FALSE]
  /\ UNCHANGED <<analysis, nPlaybacks, appVars, recVars, chatVars, pcm>>

\* =================================================================== chat
\* What the user can have typed: blanks only, or a question between blanks
Inputs == {<<" ">>, <<" ", "q", " ">>}
\* What the k-th chunk of a reply stream can be: without a text (None), or
\* with the k-th piece of the reply
Chunks(k) == {None, Some(<<k>>)}

\* String.prototype.trim
RECURSIVE TrimStart(_)
TrimStart(t) ==
  IF t # <<>> /\ Head(t) = " " THEN TrimStart(Tail(t)) ELSE t
RECURSIVE TrimEnd(_)
TrimEnd(t) ==
  IF t # <<>> /\ t[Len(t)] = " " THEN TrimEnd(SubSeq(t, 1, Len(t) - 1)) ELSE t
Trim(t) == TrimEnd(TrimStart(t))

\* c.text || ''
ChunkText(chunk) == IF chunk = None THEN <<>> ELSE Val(chunk)

\* Accumulate with the assignment fullResponse = text: only the latest
\* increment is kept
AccumulateKeepsLatest(fullResponse, text) == text

\* fullResponse += text
Accumulate(fullResponse, text) == fullResponse \o text

\* the updater of the streaming loop: the last message's text is replaced
UpdateLast(messages, text) ==
  [messages EXCEPT ![Len(messages)].text = text]

\* the catch block's setMessages and the finally block's setIsLoading
ChatFailure(ch) ==
  [ch EXCEPT !.messages = Append(@, Turn("model", Fallback)),
             !.isLoading = FALSE]

\* typing into the input (disabled while isLoading)
SetInput(a) ==
  /\ AnaMounted(a)
  /\ ~chat[a].isLoading
  /\ \E txt \in Inputs : chat' = [chat EXCEPT ![a].input = txt]
  /\ UNCHANGED <<send, nSends, appVars, recVars, anaVars, pcm>>

\* click on send, or Enter in the input (both disabled while isLoading):
\* handleSend up to its await
HandleSend(a) ==
  /\ AnaMounted(a)
  /\ ~chat[a].isLoading
  /\ Trim(chat[a].input) # <<>> /\ chat[a].chatSessionRef # None
  /\ nSends < MaxSends
  /\ nSends' = nSends + 1
  /\ LET userMsg == Trim(chat[a].input)
     IN /\ send' = [send EXCEPT ![nSends + 1] =
                      [view |-> a, pc |-> "open", userMsg |-> userMsg,
                       fullResponse |-> <<>>, before |-> chat[a].messages,
                       fragments |-> <<>>]]
        /\ chat' = [chat EXCEPT ![a].input = <<>>,
                                ![a].messages = Append(@, Turn("user", userMsg)),
                                ![a].isLoading = TRUE]
  /\ UNCHANGED <<appVars, recVars, anaVars, pcm>>

\* sendMessageStream resolves: the placeholder turn is appended
StreamOpens(s) ==
  /\ send[s].pc = "open"
  /\ send' = [send EXCEPT ![s].pc = "stream"]
  /\ chat' = IF AnaMounted(send[s].view)
               THEN [chat EXCEPT ![send[s].view].messages =
                       Append(@, Turn("model", <<>>))]
               ELSE chat
  /\ UNCHANGED <<nSends, appVars, recVars, anaVars, pcm>>

\* sendMessageStream rejects: catch and finally
StreamRejects(s) ==
  /\ send[s].pc = "open"
  /\ send' = [send EXCEPT ![s].pc = "failed"]
  /\ chat' = IF AnaMounted(send[s].view)
               THEN [chat EXCEPT ![send[s].view] = ChatFailure(@)]
               ELSE chat
  /\ UNCHANGED <<nSends, appVars, recVars, anaVars, pcm>>

\* the stream yields a chunk: one iteration of the for-await loop
StreamDelivers(s) ==
  /\ send[s].pc = "stream"
  /\ Len(send[s].fragments) < MaxFragments
  /\ \E chunk \in Chunks(Len(send[s].fragments) + 1) :
       LET text == ChunkText(chunk)
           fullResponse == Accumulate(send[s].fullResponse, text)
       IN /\ send' = [send EXCEPT ![s].fullResponse = fullResponse,
                                  ![s].fragments = Append(@, text)]
          /\ chat' = IF AnaMounted(send[s].view)
                       THEN [chat EXCEPT ![send[s].view].messages =
                               UpdateLast(@, fullResponse)]
                       ELSE chat
  /\ UNCHANGED <<nSends, appVars, recVars, anaVars, pcm>>

\* the stream is exhausted: the loop ends, finally
StreamCompletes(s) ==
  /\ send[s].pc = "stream"
  /\ send' = [send EXCEPT ![s].pc = "done"]
  /\ chat' = IF AnaMounted(send[s].view)
               THEN [chat EXCEPT ![send[s].view].isLoading = FALSE]
               ELSE chat
  /\ UNCHANGED <<nSends, appVars, recVars, anaVars, pcm>>

\* the stream throws while it is iterated: catch and finally
StreamBreaks(s) ==
  /\ send[s].pc = "stream"
  /\ send' = [send EXCEPT ![s].pc = "failed"]
  /\ chat' = IF AnaMounted(send[s].view)
               THEN [chat EXCEPT ![send[s].view] = ChatFailure(@)]
               ELSE chat
  /\ UNCHANGED <<nSends, appVars, recVars, anaVars, pcm>>

\* ============================================================= PCM decode
\* Byte values a buffer is drawn from: the ends and the middle of the range
ByteValues == {0, 1, 127, 128, 255}
\* The Uint8Array handed to decodePCM: any bytes, of any length
PCMBuffers == UNION {[1..n -> ByteValues] : n \in 0..MaxBytes}

\* The length of new Int16Array(data.buffer, data.byteOffset,
\* data.byteLength / 2): a fractional length is truncated
Int16Length(data) == Len(data) \div 2

\* Int16At over a Uint16Array: the sign is lost
Uint16At(data, i) == data[2 * i + 1] + 256 * data[2 * i + 2]

\* dataInt16[i]: bytes 2i and 2i+1 of the buffer read as a little-endian
\* two's-complement 16-bit integer
Int16At(data, i) ==
  LET u == data[2 * i + 1] + 256 * data[2 * i + 2]
  IN IF u >= 32768 THEN u - 65536 ELSE u

\* The spacing of the 32-bit floats around n >= 0: the least power of two p
\* (from p on) for which n / p has at most 24 significant bits
RECURSIVE Float32Spacing(_, _)
Float32Spacing(n, p) ==
  IF n \div p < 16777216 THEN p ELSE Float32Spacing(n, 2 * p)

\* n as a 32-bit float stores it: rounded to the nearest representable
\* integer, ties to even
RoundToFloat32(n) ==
  LET m == IF n < 0 THEN 0 - n ELSE n
      p == Float32Spacing(m, 1)
      q == m \div p
      r == m % p
      f == IF 2 * r > p \/ (2 * r = p /\ q % 2 = 1) THEN (q + 1) * p ELSE q * p
  IN IF n < 0 THEN 0 - f ELSE f

\* channelData[i] = dataInt16[i] / 32768.0: the quotient, a multiple of
\* 2^-15, as the Float32Array stores it (num / den)
Amplitude(sample) == [num |-> RoundToFloat32(sample), den |-> 32768]

\* decodePCM(data, ctx): ctx.createBuffer throws for a length of zero frames;
\* otherwise the buffer holds one amplitude per 16-bit sample
DecodePCM(data) ==
  LET frameCount == Int16Length(data)
  IN IF frameCount = 0
       THEN [pc |-> "threw", buffer |-> None]
       ELSE [pc |-> "decoded",
             buffer |-> Some([i \in 1..frameCount |->
                                Amplitude(Int16At(data, i - 1))])]

\* a call of decodePCM
DecodePCMCall ==
  /\ pcm.pc = "idle"
  /\ LET r == DecodePCM(pcm.data)
     IN pcm' = [pcm EXCEPT !.pc = r.pc, !.buffer = r.buffer]
  /\ UNCHANGED <<appVars, recVars, anaVars, chatVars>>

\* ================================================================== reset
\* click on the header, or on "analyze another dream": handleReset and the
\* render that follows
HandleReset ==
  /\ dreamData' = None
  /\ error' = None
  /\ IF AnalysisShown
       THEN /\ playback' = AnalysisCleanup(playback, anaInst)
            /\ analysis' = [analysis EXCEPT ![anaInst] = UnmountedAnalysis(@)]
            /\ chat' = [chat EXCEPT ![anaInst] = UnmountedChat(@)]
            /\ send' = UnmountedSends(send, anaInst)
            /\ recInst' = recInst + 1
       ELSE UNCHANGED <<playback, analysis, chat, send, recInst>>
  /\ UNCHANGED <<isProcessing, loadingStep, cycle, nCycles, anaInst,
                 recVars, nPlaybacks, nSends, pcm>>

\* ========================================================== specification
Next ==
  \/ \E v \in RecViews : StartRecording(v)
  \/ \E s \in Sessions : MicGranted(s)
  \/ \E s \in Sessions : MicDenied(s)
  \/ \E v \in RecViews : StopRecording(v)
  \/ \E s \in Sessions : RecorderStopTask(s)
  \/ \E s \in Sessions : TimerTick(s)
  \/ \E s \in Sessions : FrameTick(s)
  \/ \E v \in RecViews : HandleReRecord(v)
  \/ \E v \in RecViews : SetImageSize(v)
  \/ \E v \in RecViews : HandleProcess(v)
  \/ \E c \in Cycles : AnalyzeReturns(c)
  \/ \E c \in Cycles : AnalyzeFails(c)
  \/ \E c \in Cycles : ImageReturns(c)
  \/ \E c \in Cycles : ImageFails(c)
  \/ HandleReset
  \/ \E a \in AnaViews : HandlePlayInterpretation(a)
  \/ \E p \in Playbacks : SpeechFails(p)
  \/ \E p \in Playbacks : SpeechReturns(p)
  \/ \E p \in Playbacks : AudioEnds(p)
  \/ \E p \in Playbacks : EndedEvent(p)
  \/ \E p \in Playbacks : EndedLost(p)
  \/ \E a \in AnaViews : SetInput(a)
  \/ \E a \in AnaViews : HandleSend(a)
  \/ \E s \in Sends : StreamOpens(s)
  \/ \E s \in Sends : StreamRejects(s)
  \/ \E s \in Sends : StreamDelivers(s)
  \/ \E s \in Sends : StreamCompletes(s)
  \/ \E s \in Sends : StreamBreaks(s)

Spec == Init /\ [][Next]_vars

\* Spec is the whole session.  SpecCapture, SpecSpeech and SpecChat below are
\* parts of it: every step of theirs is a step of Next, taken in an
\* environment (what the user does, what the collaborators answer) that is
\* stated with each.  SpecDecode runs decodePCM, which a session reaches
\* inside playDreamSpeech, on its own and on every byte buffer.

\* The orchestrator and the recorder alone: the user never asks for speech.
\* (No speech action reads or writes the orchestrator's or the recorder's
\* state.)
NextCapture ==
  \/ \E v \in RecViews : StartRecording(v)
  \/ \E s \in Sessions : MicGranted(s)
  \/ \E s \in Sessions : MicDenied(s)
  \/ \E v \in RecViews : StopRecording(v)
  \/ \E s \in Sessions : RecorderStopTask(s)
  \/ \E s \in Sessions : TimerTick(s)
  \/ \E s \in Sessions : FrameTick(s)
  \/ \E v \in RecViews : HandleReRecord(v)
  \/ \E v \in RecViews : SetImageSize(v)
  \/ \E v \in RecViews : HandleProcess(v)
  \/ \E c \in Cycles : AnalyzeReturns(c)
  \/ \E c \in Cycles : AnalyzeFails(c)
  \/ \E c \in Cycles : ImageReturns(c)
  \/ \E c \in Cycles : ImageFails(c)
  \/ HandleReset

SpecCapture == Init /\ [][NextCapture]_vars

\* The speech side with the orchestrator: recordings (each of some bytes) are
\* made and submitted one after the other (no second start before the grant,
\* no re-record, the default image size), so that every ordering of play,
\* stop, end-of-audio, failure and reset is explored over the dream records
\* they lead to.
NextSpeech ==
  \/ \E v \in RecViews : StartRecording(v) /\ \A s \in Sessions : capture[s].pc # "awaitMic"
  \/ \E s \in Sessions : MicGranted(s)
  \/ \E v \in RecViews : StopRecording(v)
  \/ \E s \in Sessions : RecorderStops(s, <<s>>)
  \/ \E v \in RecViews : HandleProcess(v)
  \/ \E c \in Cycles : AnalyzeReturns(c)
  \/ \E c \in Cycles : AnalyzeFails(c)
  \/ \E c \in Cycles : ImageReturns(c)
  \/ \E c \in Cycles : ImageFails(c)
  \/ HandleReset
  \/ \E a \in AnaViews : HandlePlayInterpretation(a)
  \/ \E p \in Playbacks : SpeechFails(p)
  \/ \E p \in Playbacks : SpeechReturns(p)
  \/ \E p \in Playbacks : AudioEnds(p)
  \/ \E p \in Playbacks : EndedEvent(p)
  \/ \E p \in Playbacks : EndedLost(p)

SpecSpeech == Init /\ [][NextSpeech]_vars

\* The chat side with the orchestrator: the user makes one recording per
\* recorder view, each started when nothing of an earlier one is pending, and
\* every cycle succeeds; the user never asks for speech.  Every ordering of
\* typing, sending, stream events and reset is explored over the dream
\* records this leads to.
Quiescent(s) == capture[s].pc = "none" \/ capture[s].mediaRecorder = "stopped"

NextChat ==
  \/ \E v \in RecViews :
       /\ recorder[v].audioBlob = None
       /\ \A s \in Sessions : Quiescent(s)
       /\ StartRecording(v)
  \/ \E s \in Sessions : MicGranted(s)
  \/ \E v \in RecViews : StopRecording(v)
  \/ \E s \in Sessions : RecorderStops(s, <<s>>)
  \/ \E v \in RecViews : HandleProcess(v)
  \/ \E c \in Cycles : AnalyzeReturns(c)
  \/ \E c \in Cycles : ImageReturns(c)
  \/ HandleReset
  \/ \E a \in AnaViews : SetInput(a)
  \/ \E a \in AnaViews : HandleSend(a)
  \/ \E s \in Sends : StreamOpens(s)
  \/ \E s \in Sends : StreamRejects(s)
  \/ \E s \in Sends : StreamDelivers(s)
  \/ \E s \in Sends : StreamCompletes(s)
  \/ \E s \in Sends : StreamBreaks(s)

SpecChat == Init /\ [][NextChat]_vars

\* decodePCM on its own, for every byte buffer it can be handed
InitDecode ==
  /\ pcm \in {[InitPCM EXCEPT !.data = d] : d \in PCMBuffers}
  /\ chat = [a \in AnaViews |-> InitChat]
  /\ send = [s \in Sends |-> InitSend]
  /\ nSends = 0
  /\ isProcessing = FALSE
  /\ error = None
  /\ dreamData = None
  /\ loadingStep = ""
  /\ cycle = [c \in Cycles |-> InitCycle]
  /\ nCycles = 0
  /\ recInst = 1
  /\ anaInst = 0
  /\ recorder = [v \in RecViews |-> InitRecorder]
  /\ capture = [s \in Sessions |-> InitCapture]
  /\ nSessions = 0
  /\ analysis = [a \in AnaViews |-> InitAnalysis]
  /\ playback = [p \in Playbacks |-> InitPlayback]
  /\ nPlaybacks = 0

NextDecode == DecodePCMCall

SpecDecode == InitDecode /\ [][NextDecode]_vars

\* ============================================================ sanity
TypeOK ==
  /\ nCycles \in 0..MaxCycles /\ nSessions \in 0..MaxSessions
  /\ nPlaybacks \in 0..MaxPlaybacks /\ nSends \in 0..MaxSends
  /\ \A a \in AnaViews : AnaMounted(a) => chat[a].messages # <<>>
  /\ recInst \in RecViews /\ anaInst \in 0..MaxCycles
  /\ Cardinality({c \in Cycles : cycle[c].pc \in {"analyze", "image"}}) <= 1
  /\ isProcessing = (\E c \in Cycles : cycle[c].pc \in {"analyze", "image"})
  /\ \A v \in RecViews :
       recorder[v].isRecording /\ recorder[v].mediaRecorderRef # 0
         => capture[recorder[v].mediaRecorderRef].mediaRecorder = "recording"

\* ================================================================ claims
InFlight(c) == cycle[c].pc \in {"analyze", "image"}
Failed(c) == cycle[c].pc \in {"failedAnalyze", "failedImage"}

\* the record d holds what the collaborator answered in cycle c, image included
RecordOfCycle(d, c) ==
  /\ d.transcript = AnalysisResult(c).transcript
  /\ d.interpretation = AnalysisResult(c).interpretation
  /\ d.imagePrompt = AnalysisResult(c).imagePrompt
  /\ \E size \in ImageSizes :
       d.imageUrl = ImageUrl(AnalysisResult(c).imagePrompt, size)

\* C1: no partial DreamRecord is ever exposed.  In every state dreamData is
\* null or holds the transcript, interpretation, image prompt and image of
\* one cycle in which analyze and generate-image both succeeded; and the step
\* in which a cycle fails leaves dreamData as it was, null, with the error
\* message set and isProcessing cleared.
C1_NoPartialRecord ==
  /\ [](dreamData # None =>
          \E c \in Cycles : cycle[c].pc = "done" /\ RecordOfCycle(Val(dreamData), c))
  /\ [][\A c \in Cycles :
          InFlight(c) /\ cycle'[c].pc \in {"failedAnalyze", "failedImage"} =>
            /\ dreamData' = dreamData /\ dreamData' = None
            /\ error' # None /\ Val(error') # ""
            /\ ~isProcessing']_vars

\* C1's case: a record is shown after an earlier cycle failed
C1_Witness ==
  /\ dreamData # None
  /\ \E c \in Cycles : Failed(c)

\* C2: in every cycle the generate-image call is issued only once the analyze
\* call of that cycle has succeeded, with the image prompt of that analysis;
\* a cycle whose analyze call failed has issued none.
C2_AnalyzeBeforeImage ==
  \A c \in Cycles :
    /\ cycle[c].imageIssued =>
         cycle[c].analysis = Some(AnalysisResult(c))
    /\ cycle[c].imageCall # None =>
         /\ cycle[c].pc = "image"
         /\ Val(cycle[c].imageCall).prompt = AnalysisResult(c).imagePrompt
    /\ cycle[c].pc \in {"analyze", "failedAnalyze"} =>
         ~cycle[c].imageIssued /\ cycle[c].imageCall = None

\* C2's case: one cycle failed in analyze, another has its image call in flight
C2_Witness ==
  \E c, d \in Cycles :
    /\ cycle[c].pc = "failedAnalyze"
    /\ cycle[d].pc = "image" /\ cycle[d].imageCall # None

\* C3: the recording finalized when a session's recorder stops is the
\* concatenation, in order, of exactly the fragments that recorder emitted
\* (with none emitted: the zero-length recording).
C3_RecordingIsOwnFragments ==
  \A s \in Sessions :
    capture[s].finalBlob # None =>
      Val(capture[s].finalBlob) = capture[s].emitted

\* a playback that started and is over: ended and its event dispatched, or
\* stopped with no event left to come
Over(p) ==
  /\ playback[p].pc = "started"
  /\ playback[p].source \in {"finished", "stopped"}
  /\ ~playback[p].endedQueued

\* C4: a playDreamSpeech call that started playback runs onEnded exactly once,
\* on natural end or on explicit stop: never twice, and once the playback is
\* over not zero times.
C4_OnEndedExactlyOnce ==
  \A p \in Playbacks :
    /\ playback[p].pc = "started" => playback[p].onEndedCalls <= 1
    /\ Over(p) => playback[p].onEndedCalls = 1

\* C5: when decoding or audio-device acquisition fails inside playDreamSpeech,
\* onEnded has run exactly once, nothing stays acquired, the no-op stop
\* function is returned and no error reaches the caller.
C5_FailureContained ==
  \A p \in Playbacks :
    playback[p].pc \in {"ctorThrew", "failed"} =>
      /\ playback[p].onEndedCalls = 1
      /\ playback[p].ctx # "running"
      /\ playback[p].returned = "noop"
      /\ ~playback[p].rejected

C7_OnePlaybackAtATime ==
  Cardinality({p \in Playbacks : playback[p].source = "playing"}) <= 1

\* the DreamRecorder instance that started session s has been torn down
TornDown(s) == capture[s].view # 0 /\ ~RecMounted(capture[s].view)

\* C8: once a capture has stopped, and also once its recorder view is torn
\* down, everything startRecording acquired for it is released: the stream's
\* tracks, the audio context, the timer, the animation-frame loop.
C8_CaptureReleased ==
  \A s \in Sessions :
    capture[s].mediaRecorder = "stopped" \/ (capture[s].pc = "granted" /\ TornDown(s))
      => /\ capture[s].stream # "live"
         /\ capture[s].audioContext # "running"
         /\ capture[s].timer # "active"
         /\ capture[s].frame # "pending"

\* C9: at most one input stream, one recorder and one duration timer exist at
\* any time.
C9_OneCaptureAtATime ==
  /\ Cardinality({s \in Sessions : capture[s].stream = "live"}) <= 1
  /\ Cardinality({s \in Sessions : capture[s].mediaRecorder = "recording"}) <= 1
  /\ Cardinality({s \in Sessions : capture[s].timer = "active"}) <= 1

\* C10: when a cycle fails, the recorder view that is shown again still holds
\* the recording that was submitted, ready to be submitted again.
C10_FailedKeepsRecording ==
  [][\A c \in Cycles :
       InFlight(c) /\ cycle'[c].pc \in {"failedAnalyze", "failedImage"} =>
         /\ RecorderShown'
         /\ recorder'[recInst'].audioBlob = Some(cycle[c].audioBlob)]_vars

\* C11: whatever state handleReset is invoked in, the state it leaves is Idle:
\* no dream record, no error and no processing cycle in flight.
C11_ResetReachesIdle ==
  ~ ENABLED (HandleReset /\ ~(/\ dreamData' = None
                              /\ error' = None
                              /\ ~isProcessing'
                              /\ \A c \in Cycles : ~InFlight(c)'))

\* f1 + ... + fk
RECURSIVE Concat(_)
Concat(fs) == IF fs = <<>> THEN <<>> ELSE Head(fs) \o Concat(Tail(fs))

\* send s is the latest handleSend of its view
LatestOfView(s) == \A t \in Sends : t > s => send[t].view # send[s].view

\* C12: for a send whose reply stream opened and has not failed, the
\* transcript of its (mounted) view is the transcript the send started from,
\* which begins with the seeded greeting, followed by exactly one user turn
\* with the trimmed input and exactly one model turn whose text is the
\* concatenation, in arrival order, of the fragments delivered so far; and
\* in every step the transcript only grows, no turn but the last model turn
\* of a streaming send being modified.
C12_StreamGrowsOneTurn ==
  /\ [](\A s \in Sends :
          LET a == send[s].view
              n == Len(send[s].before)
          IN send[s].pc \in {"stream", "done"} /\ AnaMounted(a) =>
               /\ n >= 1 /\ send[s].before[1] = Turn("model", Greeting)
               /\ Len(chat[a].messages) >= n + 2
               /\ SubSeq(chat[a].messages, 1, n + 2) =
                    send[s].before \o
                      <<Turn("user", send[s].userMsg),
                        Turn("model", Concat(send[s].fragments))>>
               /\ LatestOfView(s) => Len(chat[a].messages) = n + 2)
  /\ [][\A a \in AnaViews :
          AnaMounted(a) /\ AnaMounted(a)' =>
            /\ Len(chat'[a].messages) >= Len(chat[a].messages)
            /\ \A i \in 1..Len(chat[a].messages) :
                 \/ chat'[a].messages[i] = chat[a].messages[i]
                 \/ /\ i = Len(chat[a].messages)
                    /\ chat[a].messages[i].role = "model"
                    /\ chat'[a].messages[i].role = "model"
                    /\ \E s \in Sends : send[s].view = a /\ send[s].pc = "stream"]_vars

\* C12's case: the second send of a view has completed after a stream of two
\* different fragments
C12_Witness ==
  \E s \in Sends :
    /\ send[s].pc = "done" /\ AnaMounted(send[s].view)
    /\ send[s].fragments = << <<1>>, <<2>> >>
    /\ Len(send[s].before) = 3
    /\ chat[send[s].view].messages[5].text = <<1, 2>>

\* C13: when the transport fails during a send (before the stream opens,
\* after zero increments, or mid-stream) the transcript of the (mounted) view
\* is the transcript the send started from, the user turn, and exactly one
\* new model turn, the fallback apology; and the loading flag is cleared.
C13_FailureLeavesOneFallbackTurn ==
  \A s \in Sends :
    LET a == send[s].view
    IN send[s].pc = "failed" /\ AnaMounted(a) /\ LatestOfView(s) =>
         /\ chat[a].messages =
              send[s].before \o
                <<Turn("user", send[s].userMsg), Turn("model", Fallback)>>
         /\ ~chat[a].isLoading

\* Math.round(amplitude * 32768)
Resynthesize(a) == (2 * a.num * 32768 + a.den) \div (2 * a.den)

Abs(x) == IF x < 0 THEN 0 - x ELSE x

\* the frames decodePCM produced for pcm.data are those of the 16-bit
\* little-endian PCM law, and survive the round trip within 1
PCMLaw ==
  /\ pcm.pc = "decoded"
  /\ LET frames == Val(pcm.buffer)
     IN /\ Len(frames) * 2 = Len(pcm.data)
        /\ \A i \in 1..Len(frames) :
             LET lo == pcm.data[2 * i - 1]
                 hi == pcm.data[2 * i]
                 sample == IF hi >= 128 THEN lo + 256 * hi - 65536
                                        ELSE lo + 256 * hi
             IN /\ frames[i].num = sample /\ frames[i].den = 32768
                /\ 0 - frames[i].den <= frames[i].num
                /\ frames[i].num <= frames[i].den
                /\ Abs(Resynthesize(frames[i]) - sample) <= 1

\* C14: for any even-length PCM byte buffer, decoding yields byteLength / 2
\* frames, frame i being the signed 16-bit little-endian integer of bytes 2i
\* and 2i+1 divided by 32768, within [-1, 1]; multiplying each amplitude by
\* 32768 and rounding gives back the integer sample within 1.
C14_DecodeRoundTrip ==
  pcm.pc # "idle" /\ Len(pcm.data) % 2 = 0 => PCMLaw

\* C14, amended: the same for every even-length buffer that holds at least
\* one sample; for the empty buffer decoding fails, no frames being produced.
C14_DecodeRoundTripNonEmpty ==
  pcm.pc # "idle" /\ Len(pcm.data) % 2 = 0 =>
    IF Len(pcm.data) > 0 THEN PCMLaw
                         ELSE pcm.pc = "threw" /\ pcm.buffer = None

\* C14's case: a buffer of the two extreme samples has been decoded
C14_Witness ==
  /\ pcm.data = <<255, 127, 0, 128>>
  /\ pcm.pc = "decoded"
  /\ Val(pcm.buffer)[1].num = 32767 /\ Val(pcm.buffer)[2].num = -32768

\* a playback of view a is in flight: its audio plays, or has ended with the
\* 'ended' event still to be dispatched
PlaybackInFlight(a) ==
  \E p \in Playbacks :
    /\ playback[p].view = a
    /\ playback[p].source = "playing" \/ playback[p].endedQueued

\* C15: in the analysis view isPlayingAudio is true, and a stop function is
\* held in stopAudioRef, only while a playback started by that view is in
\* flight: once the playback has ended (natural end, explicit stop, or a
\* failure handled inside playDreamSpeech) the view shows 'play' again.
C15_PlayingOnlyWhilePlayback ==
  \A a \in AnaViews :
    AnaMounted(a) /\ (analysis[a].isPlayingAudio \/ analysis[a].stopAudioRef # None)
      => PlaybackInFlight(a)

\* C16: once the analysis view that requested a playback has been torn down,
\* that playback is not active, also when the view was torn down while the
\* speech was still loading.
C16_NoPlaybackAfterTeardown ==
  \A p \in Playbacks :
    playback[p].view # 0 /\ ~AnaMounted(playback[p].view)
      => playback[p].source # "playing"

====
